---- MODULE Spec2Model ----
(***************************************************************************)
(* Model of the denoise facade (src/src/denoise.ts), its WAV writer and    *)
(* live capture helper, the useAudioDenoiser hook                          *)
(* (src/src/hooks/useAudioDenoiser.ts) and the AudioDenoiser component     *)
(* (src/unnamed/part_001).                                                 *)
(*                                                                         *)
(* Specifications:                                                         *)
(*   Spec         concurrent ready()/denoise() callers and the hook's     *)
(*                mount effect racing for the one engine initialization   *)
(*   SpecFair     Spec with the continuations run fairly                  *)
(*   SpecDenoise  one denoise() call over every input shape and option    *)
(*   SpecWav      createWavFile as a pure function                        *)
(*   SpecMic      startMicrophone / stopMicrophone / unmount of one hook  *)
(*   SpecHook     the hook's denoise, one call at a time                  *)
(*   SpecLive     the hook's denoise on live streams, with the microphone *)
(*   SpecComp     the component fed with file lists                       *)
(*   SpecCompMic  the component's microphone button                       *)
(*   SpecUI       the component with both                                 *)
(*   SpecCapture  a live capture with frames delivered after teardown     *)
(*                                                                         *)
(* Sample values are written in halves: the integer h stands for the      *)
(* sample h/2 (exactly representable as a float32); NaN is a sample too.  *)
(***************************************************************************)
EXTENDS Integers, Sequences, FiniteSets, TLC

VARIABLES
    _ready,              \* denoise._ready
    _readyPromise,       \* denoise._readyPromise: 0 = null, else index in promises
    _processor,          \* denoise._processor: 0 = null, else the handle constructed
    promises,            \* the promises _initialize() returned, in creation order
    calls,               \* the invocations of denoise() and of denoise.ready(), by id
    wavArgs, wavBuf,     \* createWavFile: its arguments and the returned buffer
    mounted, isReady, error, hookInitWait, optionsModel, modelFetch,
    microphoneStreamRef, audioContextRef, micRequests, streams, hookCtx,
    isProcessing,        \* the hook's isProcessing state
    hookCalls,           \* the invocations of the hook's denoise (denoiseAudio), by id
    isMicrophoneActive,  \* the component's isMicrophoneActive state
    timers,              \* the armed auto-stop timers, in the order they will fire
    batches,             \* the invocations of the component's handleFiles, by id
    callbacks            \* the onComplete / onError calls the component made, in order

facadeVars == <<_ready, _readyPromise, _processor, promises>>
wavVars    == <<wavArgs, wavBuf>>
hookVars   == <<mounted, isReady, error, hookInitWait, optionsModel, modelFetch>>
micVars    == <<microphoneStreamRef, audioContextRef, micRequests, streams, hookCtx>>
uiVars     == <<isProcessing, hookCalls, isMicrophoneActive, timers, batches, callbacks>>
vars       == <<_ready, _readyPromise, _processor, promises, calls,
                wavArgs, wavBuf,
                mounted, isReady, error, hookInitWait, optionsModel, modelFetch,
                microphoneStreamRef, audioContextRef, micRequests, streams, hookCtx,
                isProcessing, hookCalls, isMicrophoneActive, timers, batches, callbacks>>

----------------------------------------------------------------------------
(* Bounds of the model *)

\* invocations of denoise() and ready() in flight together in Spec
MaxCalls == 2
\* longest sample array handed to denoise() / returned by the engine
MaxLen == 2
\* largest sample magnitude, in halves (4 = 2.0)
MaxAmp == 4
\* microphone streams one hook instance acquires
MaxStreams == 2
\* tracks of an acquired stream
MaxTracks == 2
\* sample rates range over 1..MaxRate (samples per second)
MaxRate == 2
\* samples per onaudioprocess frame (the source asks for 4096)
FrameSize == 2
\* invocations of the component's handleFiles
MaxBatches == 2
\* files in one file list
MaxFiles == 2
\* frame callbacks delivered to a capture after it disconnected its graph
MaxLateFrames == 1

(* Program constants *)
DefaultDuration == 5000
DefaultSampleRate == 48000
WavHeaderSize == 44
Int16Scale == 32767

----------------------------------------------------------------------------
(* Sample arrays *)

NaN == [k |-> "nan", h |-> 0]
Num(h) == [k |-> "num", h |-> h]

RECURSIVE SeqsUpTo(_, _)
SeqsUpTo(S, n) ==
    IF n = 0 THEN {<<>>}
    ELSE LET shorter == SeqsUpTo(S, n - 1)
         IN  shorter \cup {Append(s, x) : s \in {t \in shorter : Len(t) = n - 1}, x \in S}

Min(a, b) == IF a < b THEN a ELSE b
Max(a, b) == IF a > b THEN a ELSE b

WavSamples == {Num(h) : h \in (0 - MaxAmp)..MaxAmp} \cup {NaN, [k |-> "inf", h |-> 1], [k |-> "inf", h |-> -1]}

----------------------------------------------------------------------------
(* createWavFile: src/src/denoise.ts 110-144.  A buffer is a sequence of   *)
(* bytes; DataView offsets are 0-based, sequence indices 1-based.          *)

\* writeString(offset, 'RIFF') etc.: the char codes
RiffTag == <<82, 73, 70, 70>>
WaveTag == <<87, 65, 86, 69>>
FmtTag  == <<102, 109, 116, 32>>
DataTag == <<100, 97, 116, 97>>

\* view.setUint16(o, n, true), for 0 <= n < 2^16
LE16(n) == <<n % 256, (n \div 256) % 256>>
\* view.setUint32(o, n, true), for 0 <= n < 2^31 (every value the model writes)
LE32(n) == <<n % 256, (n \div 256) % 256, (n \div 65536) % 256, (n \div 16777216) % 256>>

\* Math.min(1, s)
MathMin1(s) ==
    CASE s.k = "nan" -> NaN
      [] s.k = "inf" -> IF s.h > 0 THEN Num(2) ELSE s
      [] OTHER       -> Num(Min(2, s.h))

\* Math.max(-1, s)
MathMaxNeg1(s) ==
    CASE s.k = "nan" -> NaN
      [] s.k = "inf" -> IF s.h < 0 THEN Num(-2) ELSE s
      [] OTHER       -> Num(Max(-2, s.h))

\* the sample taken as it is, not clipped
ClipSampleNone(s) == s

\* const sample = Math.max(-1, Math.min(1, audioData[i]))
ClipSample(s) == MathMaxNeg1(MathMin1(s))

\* truncation toward zero of x/2
TruncHalf(x) == IF x >= 0 THEN x \div 2 ELSE 0 - ((0 - x) \div 2)

\* ToInt16(sample * 0x7FFF) as the unsigned 16-bit pattern DataView.setInt16 stores:
\* NaN and the infinities convert to 0, a finite value is truncated and wrapped
Int16Bits(s) ==
    IF s.k # "num" THEN 0 ELSE TruncHalf(s.h * Int16Scale) % 65536

\* view.setInt16(offset + i * 2, sample * 0x7FFF, true)
SampleBytes(s) == LE16(Int16Bits(ClipSample(s)))

RECURSIVE PcmBytes(_)
PcmBytes(audioData) ==
    IF audioData = <<>> THEN <<>>
    ELSE SampleBytes(Head(audioData)) \o PcmBytes(Tail(audioData))

\* createWavFile declaring the sample count where the byte count belongs
createWavFileSampleCount(audioData, sampleRate) ==
    LET length == Len(audioData)
    IN  RiffTag \o LE32(36 + length) \o WaveTag \o FmtTag
        \o LE32(16) \o LE16(1) \o LE16(1)
        \o LE32(sampleRate) \o LE32(sampleRate * 2) \o LE16(2) \o LE16(16)
        \o DataTag \o LE32(length)
        \o PcmBytes(audioData)

createWavFile(audioData, sampleRate) ==
    LET length == Len(audioData)
    IN  RiffTag \o LE32(36 + length * 2) \o WaveTag \o FmtTag
        \o LE32(16) \o LE16(1) \o LE16(1)
        \o LE32(sampleRate) \o LE32(sampleRate * 2) \o LE16(2) \o LE16(16)
        \o DataTag \o LE32(length * 2)
        \o PcmBytes(audioData)

(* A reader of the file: the fields at their byte offsets *)
RdU16(b, off) == b[off + 1] + 256 * b[off + 2]
RdU32(b, off) == b[off + 1] + 256 * b[off + 2] + 65536 * b[off + 3] + 16777216 * b[off + 4]
RdI16(b, off) == LET u == RdU16(b, off) IN IF u >= 32768 THEN u - 65536 ELSE u
RdTag(b, off) == SubSeq(b, off + 1, off + 4)

WavRates == (1..MaxRate) \cup {44100, DefaultSampleRate}
WavInputs == [audioData : SeqsUpTo(WavSamples, MaxLen), sampleRate : WavRates]
NoWavArgs == [audioData |-> <<>>, sampleRate |-> 0]

\* the call createWavFile(audioData, sampleRate) returning its buffer
CreateWav ==
    /\ wavBuf = <<>>
    /\ wavArgs # NoWavArgs
    /\ wavBuf' = createWavFile(wavArgs.audioData, wavArgs.sampleRate)
    /\ UNCHANGED <<wavArgs, facadeVars, calls, hookVars, micVars, uiVars>>

----------------------------------------------------------------------------
(* The facade: denoise.ready / denoise._initialize, src/src/denoise.ts     *)
(* 85-105.  loadWasm and DenoiseProcessor live in src/wasm/loader, which   *)
(* is not part of the sources: the load either resolves or rejects.        *)

\* ready() without the memo check of line 94
ReadyStartsInitNoMemo == ~_ready

\* ready() starting a new initialization when the memoized one has rejected
ReadyStartsInitRetry ==
    /\ ~_ready
    /\ IF _readyPromise = 0 THEN TRUE ELSE promises[_readyPromise] = "rejected"

\* ready() reaches `this._readyPromise = this._initialize()`
ReadyStartsInit == ~_ready /\ _readyPromise = 0

\* the promise ready() returns; 0 is the already resolved Promise.resolve()
ReadyReturns ==
    IF _ready THEN 0
    ELSE IF ReadyStartsInit THEN Len(promises) + 1 ELSE _readyPromise

\* the state change of one ready() call: _initialize() runs up to its first
\* await (loadWasm() is called) and its promise is memoized
ReadyEffect ==
    /\ _readyPromise' = IF ReadyStartsInit THEN Len(promises) + 1 ELSE _readyPromise
    /\ promises' = IF ReadyStartsInit THEN Append(promises, "pending") ELSE promises
    /\ UNCHANGED <<_ready, _processor>>

\* _initialize that sets _ready and forgets to keep the processor
InitializeResolveNoHandle(p) ==
    /\ p \in 1..Len(promises)
    /\ promises[p] = "pending"
    /\ _ready' = TRUE
    /\ promises' = [promises EXCEPT ![p] = "fulfilled"]
    /\ UNCHANGED <<_processor, _readyPromise, calls, wavVars, uiVars, hookVars, micVars>>

\* loadWasm() resolved: the rest of _initialize. Each construction yields a
\* fresh handle, named by the initialization that made it.
InitializeResolve(p) ==
    /\ p \in 1..Len(promises)
    /\ promises[p] = "pending"
    /\ _processor' = p
    /\ _ready' = TRUE
    /\ promises' = [promises EXCEPT ![p] = "fulfilled"]
    /\ UNCHANGED <<_readyPromise, calls, wavVars, uiVars, hookVars, micVars>>

\* loadWasm() rejected (or the constructor threw): _initialize's promise rejects
InitializeReject(p) ==
    /\ p \in 1..Len(promises)
    /\ promises[p] = "pending"
    /\ promises' = [promises EXCEPT ![p] = "rejected"]
    /\ UNCHANGED <<_ready, _readyPromise, _processor, calls, wavVars, uiVars, hookVars, micVars>>

\* an awaited promise has settled
Settled(w) == IF w = 0 THEN TRUE ELSE promises[w] # "pending"
Fulfilled(w) == IF w = 0 THEN TRUE ELSE promises[w] = "fulfilled"

----------------------------------------------------------------------------
(* denoise(input, options): src/src/denoise.ts 12-83 *)

Calls == 1..MaxCalls
Rates == 1..MaxRate
ReturnTypes == {"absent", "arraybuffer", "blob", "float32array"}
\* options.duration, a length of time in ms (not negative); 0 stands for an absent
\* (or zero) duration, both falsy
Durations == {0, 400, 1000, 1500}

CallSamples == {Num(0), Num(2)}
SampleArrays == SeqsUpTo(CallSamples, MaxLen)

\* an input: its kind; for a buffer or a sample array its samples (ok = FALSE: an
\* ArrayBuffer whose byte length is no multiple of 4); for a file/blob what
\* decodeAudioData yields (channel 0 and the decoded rate, ok = FALSE: undecodable);
\* for a live stream the rate of the AudioContext that captures it
Input(kind, data, rate, ok) == [kind |-> kind, data |-> data, rate |-> rate, ok |-> ok]
NoInput == Input("none", <<>>, 0, TRUE)
NullInput == Input("null", <<>>, 0, TRUE)
OtherInput == Input("other", <<>>, 0, TRUE)
BufferInputs == {Input("ArrayBuffer", d, 0, TRUE) : d \in SampleArrays}
                    \cup {Input("ArrayBuffer", <<>>, 0, FALSE)}
ArrayInputs == {Input("Float32Array", d, 0, TRUE) : d \in SampleArrays}
BlobInputs == {Input("Blob", d, r, TRUE) : d \in SampleArrays, r \in Rates}
                    \cup {Input("Blob", <<>>, 0, FALSE)}
StreamInputs == {Input("MediaStream", <<>>, r, TRUE) : r \in Rates}
AllInputs == {NullInput, OtherInput} \cup BufferInputs \cup ArrayInputs
                    \cup BlobInputs \cup StreamInputs

\* options: sampleRate 0 = absent
Options(sr, rt, dur) == [sampleRate |-> sr, returnType |-> rt, duration |-> dur]
NoOptions == Options(0, "absent", 0)
OptionsFor(in) ==
    {Options(sr, rt, dur) : sr \in 0..MaxRate, rt \in ReturnTypes,
                            dur \in IF in.kind = "MediaStream" THEN Durations ELSE {0}}

\* what processor.process may resolve with (the engine is opaque: samples of the
\* same or an engine-defined length)
EngineOutputs == SeqsUpTo({Num(1), Num(-3)}, MaxLen)

\* teardowns: how often lines 167-169 ran (disconnect, disconnect, close);
\* resolveCalls: how often resolve() of line 179 was called
NoCap == [active |-> FALSE, sampleRate |-> 0, targetSamples |-> 0, totalSamples |-> 0,
          chunks |-> <<>>, connected |-> FALSE, ctx |-> "none",
          resolved |-> FALSE, result |-> <<>>, teardowns |-> 0, resolveCalls |-> 0]
NoResult == [type |-> "none", mime |-> "", samples |-> <<>>, bytes |-> <<>>]

IdleCall == [pc |-> "idle", fn |-> "none", input |-> NoInput, options |-> NoOptions, wait |-> 0,
             ctx |-> "none", cap |-> NoCap, audioData |-> <<>>, sampleRate |-> 0,
             processor |-> 0, engineRate |-> -1, engineData |-> <<>>,
             result |-> NoResult, err |-> ""]

Reject(r, msg) == [r EXCEPT !.pc = "rejected", !.err = msg]

\* a direct call of denoise.ready(), as in the tests' beforeAll
CallReady(c) ==
    /\ calls[c].pc = "idle"
    /\ calls' = [calls EXCEPT ![c].pc = "awaitReady", ![c].fn = "ready",
                              ![c].wait = ReadyReturns]
    /\ ReadyEffect
    /\ UNCHANGED <<wavVars, uiVars, hookVars, micVars>>

\* the promise ready() returned settles for that caller
ReadySettles(c) ==
    /\ calls[c].pc = "awaitReady"
    /\ calls[c].fn = "ready"
    /\ Settled(calls[c].wait)
    /\ calls' = [calls EXCEPT ![c] =
          IF Fulfilled(@.wait) THEN [@ EXCEPT !.pc = "resolved"]
          ELSE Reject(@, "initialization failed")]
    /\ UNCHANGED <<facadeVars, wavVars, uiVars, hookVars, micVars>>

\* lines 12-22: the null check, then `await denoise.ready()`; what the call does to
\* the facade and to its own frame
DenoiseEnter(c, input, options) ==
    /\ calls[c].pc = "idle"
    /\ IF input.kind = "null"
       THEN /\ calls' = [calls EXCEPT ![c] =
                  Reject([@ EXCEPT !.fn = "denoise", !.input = input, !.options = options],
                         "Invalid input: input cannot be null or undefined")]
            /\ UNCHANGED facadeVars
       ELSE /\ calls' = [calls EXCEPT ![c] =
                  [@ EXCEPT !.pc = "awaitReady", !.fn = "denoise", !.input = input,
                            !.options = options,
                            !.wait = ReadyReturns, !.sampleRate = options.sampleRate]]
            /\ ReadyEffect

\* a direct call of denoise(input, options)
Denoise(c, input, options) ==
    /\ DenoiseEnter(c, input, options)
    /\ UNCHANGED <<wavVars, uiVars, hookVars, micVars>>

\* lines 56-70 without the empty check of lines 57-59
SubmitNoEmptyCheck(r, audioData, sampleRate) ==
    IF _processor = 0 THEN Reject(r, "Denoise processor not initialized")
    ELSE [r EXCEPT !.pc = "processing", !.audioData = audioData,
                   !.sampleRate = sampleRate, !.processor = _processor,
                   !.engineRate = IF sampleRate # 0 THEN sampleRate
                                  ELSE r.options.sampleRate,
                   !.engineData = audioData]

\* lines 56-70: the empty check, the processor check, processor.process(...)
Submit(r, audioData, sampleRate) ==
    IF Len(audioData) = 0 THEN Reject(r, "Audio data is empty")
    ELSE IF _processor = 0 THEN Reject(r, "Denoise processor not initialized")
    ELSE [r EXCEPT !.pc = "processing", !.audioData = audioData,
                   !.sampleRate = sampleRate, !.processor = _processor,
                   !.engineRate = IF sampleRate # 0 THEN sampleRate
                                  ELSE r.options.sampleRate,
                   !.engineData = audioData]

\* the await of ready() rejected: denoise rejects with the initialization's error
ReadyRejected(c) ==
    /\ calls[c].pc = "awaitReady"
    /\ calls[c].fn = "denoise"
    /\ Settled(calls[c].wait) /\ ~Fulfilled(calls[c].wait)
    /\ calls' = [calls EXCEPT ![c] = Reject(@, "initialization failed")]
    /\ UNCHANGED <<facadeVars, wavVars, uiVars, hookVars, micVars>>

\* lines 28-32: a raw buffer or a sample array, then straight on to line 56
NormalizeRaw(c) ==
    /\ calls[c].pc = "awaitReady"
    /\ Fulfilled(calls[c].wait)
    /\ calls[c].input.kind \in {"ArrayBuffer", "Float32Array"}
    /\ calls' = [calls EXCEPT ![c] =
          IF ~@.input.ok
          THEN Reject(@, "RangeError: byte length of Float32Array should be a multiple of 4")
          ELSE Submit(@, @.input.data, @.sampleRate)]
    /\ UNCHANGED <<facadeVars, wavVars, uiVars, hookVars, micVars>>

\* lines 52-54
RejectType(c) ==
    /\ calls[c].pc = "awaitReady"
    /\ Fulfilled(calls[c].wait)
    /\ calls[c].input.kind = "other"
    /\ calls' = [calls EXCEPT ![c] = Reject(@, "Invalid input type")]
    /\ UNCHANGED <<facadeVars, wavVars, uiVars, hookVars, micVars>>

\* line 35: `await input.arrayBuffer()`
BlobRead(c) ==
    /\ calls[c].pc = "awaitReady"
    /\ Fulfilled(calls[c].wait)
    /\ calls[c].input.kind = "Blob"
    /\ calls' = [calls EXCEPT ![c].pc = "readBlob"]
    /\ UNCHANGED <<facadeVars, wavVars, uiVars, hookVars, micVars>>

\* lines 36-39: new AudioContext(), `await audioContext.decodeAudioData(buffer)`
DecodeStart(c) ==
    /\ calls[c].pc = "readBlob"
    /\ calls' = [calls EXCEPT ![c].pc = "decoding", ![c].ctx = "open"]
    /\ UNCHANGED <<facadeVars, wavVars, uiVars, hookVars, micVars>>

\* lines 40-46: decoded; sampleRate and channel 0 taken, `await audioContext.close()`
DecodeResolve(c) ==
    /\ calls[c].pc = "decoding"
    /\ calls[c].input.ok
    /\ calls' = [calls EXCEPT ![c].pc = "closing", ![c].ctx = "closed",
                              ![c].sampleRate = calls[c].input.rate,
                              ![c].audioData = calls[c].input.data]
    /\ UNCHANGED <<facadeVars, wavVars, uiVars, hookVars, micVars>>

\* lines 47-49: decodeAudioData rejected; the catch rethrows (close() is not reached)
DecodeReject(c) ==
    /\ calls[c].pc = "decoding"
    /\ ~calls[c].input.ok
    /\ calls' = [calls EXCEPT ![c] = Reject(@, "Failed to decode audio file")]
    /\ UNCHANGED <<facadeVars, wavVars, uiVars, hookVars, micVars>>

\* close() resolved: on to line 56
ContextClosed(c) ==
    /\ calls[c].pc = "closing"
    /\ calls' = [calls EXCEPT ![c] = Submit(@, @.audioData, @.sampleRate)]
    /\ UNCHANGED <<facadeVars, wavVars, uiVars, hookVars, micVars>>

----------------------------------------------------------------------------
(* captureStreamAudio(stream, duration): src/src/denoise.ts 147-186 *)

RECURSIVE Concat(_)
\* the loop of lines 172-177: the chunks laid end to end
Concat(chunks) ==
    IF chunks = <<>> THEN <<>> ELSE Head(chunks) \o Concat(Tail(chunks))

\* TypedArray.prototype.slice(0, end): a negative end counts from the back
Slice0(a, end) ==
    LET final == IF end < 0 THEN Max(Len(a) + end, 0) ELSE Min(end, Len(a))
    IN  SubSeq(a, 1, final)

\* Math.floor((duration / 1000) * sampleRate)
TargetSamples(duration, sampleRate) == (duration * sampleRate) \div 1000

\* lines 50-51 and 151-160, 183-184: `options.duration || 5000`, the context, the
\* nodes, the counters, and the graph connected
CaptureStart(c) ==
    /\ calls[c].pc = "awaitReady"
    /\ Fulfilled(calls[c].wait)
    /\ calls[c].input.kind = "MediaStream"
    /\ LET duration == IF calls[c].options.duration # 0
                       THEN calls[c].options.duration ELSE DefaultDuration
           rate == calls[c].input.rate
       IN  calls' = [calls EXCEPT ![c].pc = "capturing",
                       ![c].cap = [active |-> TRUE, sampleRate |-> rate,
                                   targetSamples |-> TargetSamples(duration, rate),
                                   totalSamples |-> 0, chunks |-> <<>>,
                                   connected |-> TRUE, ctx |-> "open",
                                   resolved |-> FALSE, result |-> <<>>,
                                   teardowns |-> 0, resolveCalls |-> 0]]
    /\ UNCHANGED <<facadeVars, wavVars, uiVars, hookVars, micVars>>

\* onaudioprocess resolving with everything accumulated, not trimmed to the target
OnAudioProcessNoTrim(cap, inputData) ==
    LET chunks == Append(cap.chunks, inputData)
        totalSamples == cap.totalSamples + Len(inputData)
    IN  IF totalSamples >= cap.targetSamples
        THEN [cap EXCEPT !.chunks = chunks, !.totalSamples = totalSamples,
                         !.connected = FALSE, !.ctx = "closed",
                         !.teardowns = @ + 1, !.resolveCalls = @ + 1,
                         !.resolved = TRUE,
                         !.result = IF cap.resolved THEN cap.result ELSE Concat(chunks)]
        ELSE [cap EXCEPT !.chunks = chunks, !.totalSamples = totalSamples]

\* lines 161-181: processor.onaudioprocess
OnAudioProcess(cap, inputData) ==
    LET chunks == Append(cap.chunks, inputData)
        totalSamples == cap.totalSamples + Len(inputData)
    IN  IF totalSamples >= cap.targetSamples
        THEN [cap EXCEPT !.chunks = chunks, !.totalSamples = totalSamples,
                         !.connected = FALSE, !.ctx = "closed",
                         !.teardowns = @ + 1, !.resolveCalls = @ + 1,
                         !.resolved = TRUE,
                         !.result = IF cap.resolved THEN cap.result
                                    ELSE Slice0(Concat(chunks), cap.targetSamples)]
        ELSE [cap EXCEPT !.chunks = chunks, !.totalSamples = totalSamples]

\* the next frame of the stream: FrameSize samples, numbered in stream order
NextFrame(cap) == [i \in 1..FrameSize |-> Num(cap.totalSamples + i)]

\* the platform delivers a frame to the connected script processor
FrameArrives(c) ==
    /\ calls[c].pc = "capturing"
    /\ calls[c].cap.connected
    /\ calls' = [calls EXCEPT ![c].cap = OnAudioProcess(@, NextFrame(@))]
    /\ UNCHANGED <<facadeVars, wavVars, uiVars, hookVars, micVars>>

\* a frame callback the platform had already queued when the graph was disconnected
\* is delivered all the same: at most MaxLateFrames of them
LateFrameArrives(c) ==
    /\ calls[c].cap.active
    /\ ~calls[c].cap.connected
    /\ calls[c].cap.teardowns <= MaxLateFrames
    /\ calls' = [calls EXCEPT ![c].cap = OnAudioProcess(@, NextFrame(@))]
    /\ UNCHANGED <<facadeVars, wavVars, uiVars, hookVars, micVars>>

\* the await of line 51 resumes with the captured samples: on to line 56
CaptureResolved(c) ==
    /\ calls[c].pc = "capturing"
    /\ calls[c].cap.resolved
    /\ calls' = [calls EXCEPT ![c] = Submit(@, @.cap.result, @.sampleRate)]
    /\ UNCHANGED <<facadeVars, wavVars, uiVars, hookVars, micVars>>

----------------------------------------------------------------------------
(* lines 67-82: the engine's answer and the returnType switch *)

\* the switch with the 'blob' case falling through to the default
ReturnFormatNoBlob(returnType, denoised, sampleRate) ==
    CASE returnType = "float32array" ->
            [type |-> "Float32Array", mime |-> "", samples |-> denoised, bytes |-> <<>>]
      [] OTHER ->
            [type |-> "ArrayBuffer", mime |-> "", samples |-> denoised, bytes |-> <<>>]

ReturnFormat(returnType, denoised, sampleRate) ==
    CASE returnType = "blob" ->
            [type |-> "Blob", mime |-> "audio/wav", samples |-> <<>>,
             bytes |-> createWavFile(denoised,
                          IF sampleRate # 0 THEN sampleRate ELSE DefaultSampleRate)]
      [] returnType = "float32array" ->
            [type |-> "Float32Array", mime |-> "", samples |-> denoised, bytes |-> <<>>]
      [] OTHER ->
            [type |-> "ArrayBuffer", mime |-> "", samples |-> denoised, bytes |-> <<>>]

EngineResolve(c, denoised) ==
    /\ calls[c].pc = "processing"
    /\ calls' = [calls EXCEPT ![c].pc = "resolved",
                    ![c].result = ReturnFormat(calls[c].options.returnType, denoised,
                                               calls[c].sampleRate)]
    /\ UNCHANGED <<facadeVars, wavVars, uiVars, hookVars, micVars>>

EngineReject(c) ==
    /\ calls[c].pc = "processing"
    /\ calls' = [calls EXCEPT ![c] = Reject(@, "engine failed")]
    /\ UNCHANGED <<facadeVars, wavVars, uiVars, hookVars, micVars>>

----------------------------------------------------------------------------
(* useAudioDenoiser, one hook instance: src/src/hooks/useAudioDenoiser.ts. *)
(* A state setter acts only while the instance is mounted.                 *)

\* setIsReady(true)
SetIsReady == isReady' = (IF mounted = "yes" THEN TRUE ELSE isReady)
\* setError(err)
SetError(err) == error' = (IF mounted = "yes" THEN err ELSE error)

\* lines 33-43 and 57-67: the mount effects; initialize() calls denoise.ready(),
\* and with a modelUrl the model is fetched
Mount(modelUrl) ==
    /\ mounted = "no"
    /\ mounted' = "yes"
    /\ hookInitWait' = ReadyReturns
    /\ ReadyEffect
    /\ modelFetch' = modelUrl
    /\ UNCHANGED <<isReady, error, optionsModel, calls, wavVars, uiVars, micVars>>

\* lines 36-40: the await of denoise.ready() in initialize() settles
HookInitSettles ==
    /\ hookInitWait >= 0
    /\ Settled(hookInitWait)
    /\ IF Fulfilled(hookInitWait)
       THEN SetIsReady /\ UNCHANGED error
       ELSE SetError("initialization failed") /\ UNCHANGED isReady
    /\ hookInitWait' = -1
    /\ UNCHANGED <<mounted, optionsModel, modelFetch, facadeVars, calls,
                   wavVars, uiVars, micVars>>

\* lines 57-67 run again: options.modelUrl changed to another URL
ModelUrlChange ==
    /\ mounted = "yes"
    /\ ~modelFetch
    /\ modelFetch' = TRUE
    /\ UNCHANGED <<mounted, isReady, error, hookInitWait, optionsModel, facadeVars,
                   calls, wavVars, uiVars, micVars>>

\* lines 60-64: options.model = buffer
ModelFetchResolve ==
    /\ modelFetch
    /\ modelFetch' = FALSE
    /\ optionsModel' = 1
    /\ UNCHANGED <<mounted, isReady, error, hookInitWait, facadeVars, calls,
                   wavVars, uiVars, micVars>>

\* line 65: .catch(err => setError(err))
ModelFetchReject ==
    /\ modelFetch
    /\ modelFetch' = FALSE
    /\ SetError("model fetch failed")
    /\ UNCHANGED <<mounted, isReady, hookInitWait, optionsModel, facadeVars, calls,
                   wavVars, uiVars, micVars>>

\* stream.getTracks().forEach(track => track.stop()): one more stop() on each track
StopTracks(tracks) == [t \in DOMAIN tracks |-> tracks[t] + 1]

\* lines 46-53: the cleanup of the mount effect
Unmount ==
    /\ mounted = "yes"
    /\ mounted' = "gone"
    /\ streams' = IF microphoneStreamRef # 0
                  THEN [streams EXCEPT ![microphoneStreamRef] = StopTracks(@)]
                  ELSE streams
    /\ hookCtx' = IF audioContextRef # 0 THEN "closed" ELSE hookCtx
    /\ UNCHANGED <<isReady, error, hookInitWait, optionsModel, modelFetch,
                   microphoneStreamRef, audioContextRef, micRequests,
                   facadeVars, calls, wavVars, uiVars>>

(* The microphone: a stream is the sequence of its tracks, each the number *)
(* of stop() calls it has received (0: the track is live).                 *)

\* lines 104-114: startMicrophone() up to `await getUserMedia(...)`
StartMicrophone ==
    /\ mounted = "yes"
    /\ Len(streams) + micRequests < MaxStreams
    /\ micRequests' = micRequests + 1
    /\ UNCHANGED <<microphoneStreamRef, audioContextRef, streams, hookCtx,
                   hookVars, facadeVars, calls, wavVars, uiVars>>

\* lines 116-131: permission granted; every request gets a stream of its own
GetUserMediaResolve(nTracks) ==
    /\ micRequests > 0
    /\ micRequests' = micRequests - 1
    /\ streams' = Append(streams, [t \in 1..nTracks |-> 0])
    /\ microphoneStreamRef' = Len(streams) + 1
    /\ audioContextRef' = 1
    /\ hookCtx' = IF audioContextRef = 0 THEN "open" ELSE hookCtx
    /\ UNCHANGED <<hookVars, facadeVars, calls, wavVars, uiVars>>

\* lines 132-136: permission denied
GetUserMediaReject ==
    /\ micRequests > 0
    /\ micRequests' = micRequests - 1
    /\ SetError("Permission denied")
    /\ UNCHANGED <<mounted, isReady, hookInitWait, optionsModel, modelFetch,
                   microphoneStreamRef, audioContextRef, streams, hookCtx,
                   facadeVars, calls, wavVars, uiVars>>

\* stopMicrophone() that stops the tracks and keeps the reference
StopMicrophoneKeepsRef ==
    /\ mounted # "no"
    /\ IF microphoneStreamRef # 0
       THEN streams' = [streams EXCEPT ![microphoneStreamRef] = StopTracks(@)]
       ELSE UNCHANGED streams
    /\ UNCHANGED <<microphoneStreamRef, audioContextRef, micRequests, hookCtx,
                   hookVars, facadeVars, calls, wavVars, uiVars>>

\* stopMicrophone() that also aborts the captures in flight
StopMicrophoneAbortsCapture ==
    /\ mounted # "no"
    /\ IF microphoneStreamRef # 0
       THEN /\ streams' = [streams EXCEPT ![microphoneStreamRef] = StopTracks(@)]
            /\ microphoneStreamRef' = 0
       ELSE UNCHANGED <<streams, microphoneStreamRef>>
    /\ calls' = [c \in Calls |->
          IF calls[c].pc = "capturing" /\ ~calls[c].cap.resolved
          THEN Reject(calls[c], "capture aborted") ELSE calls[c]]
    /\ UNCHANGED <<audioContextRef, micRequests, hookCtx,
                   hookVars, facadeVars, wavVars, uiVars>>

\* lines 139-144: stopMicrophone()
StopMicrophone ==
    /\ mounted # "no"
    /\ IF microphoneStreamRef # 0
       THEN /\ streams' = [streams EXCEPT ![microphoneStreamRef] = StopTracks(@)]
            /\ microphoneStreamRef' = 0
       ELSE UNCHANGED <<streams, microphoneStreamRef>>
    /\ UNCHANGED <<audioContextRef, micRequests, hookCtx,
                   hookVars, facadeVars, calls, wavVars, uiVars>>

----------------------------------------------------------------------------
(* The hook's denoise (denoiseAudio): src/src/hooks/useAudioDenoiser.ts     *)
(* 69-102.  The hook call h runs the facade call of the same id.           *)

\* setIsProcessing(b)
SetIsProcessing(b) == isProcessing' = (IF mounted = "yes" THEN b ELSE isProcessing)

IdleHookCall == [pc |-> "idle", err |-> "", type |-> "none"]

\* the hook call is between its start and its settling
InFlight(h) == hookCalls[h].pc \in {"awaitDenoise", "awaitBuffer"}

\* lines 74-81: setIsProcessing(true), setError(null), and denoise(input, ...) up to
\* its first await
DenoiseAudioEnter(h, input, options) ==
    /\ hookCalls[h].pc = "idle"
    /\ SetIsProcessing(TRUE)
    /\ SetError("")
    /\ DenoiseEnter(h, input, options)
    /\ hookCalls' = [hookCalls EXCEPT ![h].pc = "awaitDenoise"]

\* a call of the hook's denoise by the code that uses the hook
DenoiseAudio(h, input, options) ==
    /\ mounted = "yes"
    /\ DenoiseAudioEnter(h, input, options)
    /\ UNCHANGED <<mounted, isReady, hookInitWait, optionsModel, modelFetch, micVars,
                   wavVars, isMicrophoneActive, timers, batches, callbacks>>

\* lines 84-92: the result as an ArrayBuffer; a Blob is read with another await
DenoiseAudioResolved(h) ==
    /\ hookCalls[h].pc = "awaitDenoise"
    /\ calls[h].pc = "resolved"
    /\ LET type == calls[h].result.type
       IN  CASE type = "Blob" ->
                  /\ hookCalls' = [hookCalls EXCEPT ![h].pc = "awaitBuffer"]
                  /\ UNCHANGED <<isProcessing, error>>
             [] type \in {"ArrayBuffer", "Float32Array"} ->
                  /\ hookCalls' = [hookCalls EXCEPT ![h].pc = "resolved",
                                                    ![h].type = "ArrayBuffer"]
                  /\ SetIsProcessing(FALSE)
                  /\ UNCHANGED error
             [] OTHER ->
                  /\ hookCalls' = [hookCalls EXCEPT ![h].pc = "rejected",
                                                    ![h].err = "Unexpected result type"]
                  /\ SetError("Unexpected result type")
                  /\ SetIsProcessing(FALSE)
    /\ UNCHANGED <<mounted, isReady, hookInitWait, optionsModel, modelFetch, micVars,
                   facadeVars, calls, wavVars,
                   isMicrophoneActive, timers, batches, callbacks>>

\* line 87: `await result.arrayBuffer()` resolved, then the finally block
DenoiseAudioBufferRead(h) ==
    /\ hookCalls[h].pc = "awaitBuffer"
    /\ hookCalls' = [hookCalls EXCEPT ![h].pc = "resolved", ![h].type = "ArrayBuffer"]
    /\ SetIsProcessing(FALSE)
    /\ UNCHANGED <<mounted, isReady, error, hookInitWait, optionsModel, modelFetch,
                   micVars, facadeVars, calls, wavVars,
                   isMicrophoneActive, timers, batches, callbacks>>

\* the catch rethrowing without setError(error)
DenoiseAudioRejectedNoError(h) ==
    /\ hookCalls[h].pc = "awaitDenoise"
    /\ calls[h].pc = "rejected"
    /\ hookCalls' = [hookCalls EXCEPT ![h].pc = "rejected", ![h].err = calls[h].err]
    /\ SetIsProcessing(FALSE)
    /\ UNCHANGED <<mounted, isReady, error, hookInitWait, optionsModel, modelFetch,
                   micVars, facadeVars, calls, wavVars,
                   isMicrophoneActive, timers, batches, callbacks>>

\* lines 93-99: denoise() rejected: setError(error), rethrow, then the finally block
DenoiseAudioRejected(h) ==
    /\ hookCalls[h].pc = "awaitDenoise"
    /\ calls[h].pc = "rejected"
    /\ hookCalls' = [hookCalls EXCEPT ![h].pc = "rejected", ![h].err = calls[h].err]
    /\ SetError(calls[h].err)
    /\ SetIsProcessing(FALSE)
    /\ UNCHANGED <<mounted, isReady, hookInitWait, optionsModel, modelFetch,
                   micVars, facadeVars, calls, wavVars,
                   isMicrophoneActive, timers, batches, callbacks>>

----------------------------------------------------------------------------
(* The AudioDenoiser component: src/unnamed/part_001.  It owns one hook     *)
(* instance; its handlers can run only from the elements it renders.       *)

Batches == 1..MaxBatches

\* the render branches without the error branch of lines 132-143
ViewIgnoresError == IF ~isReady THEN "loading" ELSE "dropzone"

\* lines 121-143: what the component renders
View == IF ~isReady THEN "loading" ELSE IF error # "" THEN "error" ELSE "dropzone"

\* the files a list may hold: one that decodes to samples, one that decodes to no
\* samples, one that does not decode
GoodFile == Input("Blob", <<Num(2)>>, 1, TRUE)
EmptyFile == Input("Blob", <<>>, 1, TRUE)
BadFile == Input("Blob", <<>>, 0, FALSE)
FileInputs == {GoodFile, EmptyFile, BadFile}

\* a FileList, or none (present = FALSE)
NoFileList == [present |-> FALSE, list |-> <<>>]
FileLists == {NoFileList} \cup {[present |-> TRUE, list |-> l] : l \in SeqsUpTo(FileInputs, MaxFiles)}

\* calls: the ids of the hook calls made for files 1..i
IdleBatch == [pc |-> "idle", files |-> <<>>, i |-> 0, calls |-> <<>>]

\* the hook call a running batch is awaiting
CurrentCall(b) == batches[b].calls[batches[b].i]

\* a call of onComplete or onError, for file i of batch b (i = 0: for no file)
Callback(cb, b, i, err) == [cb |-> cb, batch |-> b, i |-> i, err |-> err]

\* hook calls are numbered in the order they start
NextCall == 1 + Cardinality({h \in Calls : hookCalls[h].pc # "idle"})

RECURSIVE FilesToStart(_)
\* the files of running batches 1..b whose denoise call has not started yet
FilesToStart(b) ==
    IF b = 0 THEN 0
    ELSE FilesToStart(b - 1)
           + (IF batches[b].pc = "awaiting" THEN Len(batches[b].files) - batches[b].i ELSE 0)

\* handleFiles without the empty check of lines 51-55: the loop runs over no file
HandleFilesNoEmptyCheck(b, files) ==
    /\ batches[b].pc = "idle"
    /\ \A a \in 1..(b - 1) : batches[a].pc # "idle"
    /\ IF ~files.present \/ Len(files.list) = 0
       THEN /\ batches' = [batches EXCEPT ![b].pc = "done"]
            /\ UNCHANGED <<callbacks, isProcessing, error, hookCalls, calls, facadeVars>>
       ELSE /\ (NextCall - 1) + FilesToStart(MaxBatches) + Len(files.list) <= MaxCalls
            /\ batches' = [batches EXCEPT ![b] =
                  [pc |-> "awaiting", files |-> files.list, i |-> 1, calls |-> <<NextCall>>]]
            /\ DenoiseAudioEnter(NextCall, files.list[1], NoOptions)
            /\ UNCHANGED callbacks
    /\ UNCHANGED <<mounted, isReady, hookInitWait, optionsModel, modelFetch, micVars,
                   wavVars, isMicrophoneActive, timers>>

\* lines 49-62: handleFiles(files) up to its first await
HandleFiles(b, files) ==
    /\ batches[b].pc = "idle"
    /\ \A a \in 1..(b - 1) : batches[a].pc # "idle"
    /\ IF ~files.present \/ Len(files.list) = 0
       THEN /\ callbacks' = Append(callbacks, Callback("onError", b, 0, "No files selected"))
            /\ batches' = [batches EXCEPT ![b].pc = "done"]
            /\ UNCHANGED <<isProcessing, error, hookCalls, calls, facadeVars>>
       ELSE /\ (NextCall - 1) + FilesToStart(MaxBatches) + Len(files.list) <= MaxCalls
            /\ batches' = [batches EXCEPT ![b] =
                  [pc |-> "awaiting", files |-> files.list, i |-> 1, calls |-> <<NextCall>>]]
            /\ DenoiseAudioEnter(NextCall, files.list[1], NoOptions)
            /\ UNCHANGED callbacks
    /\ UNCHANGED <<mounted, isReady, hookInitWait, optionsModel, modelFetch, micVars,
                   wavVars, isMicrophoneActive, timers>>

\* lines 74-81: a drop on the drop zone
HandleDrop(b, files) ==
    /\ mounted = "yes"
    /\ View = "dropzone"
    /\ HandleFiles(b, files)

\* lines 92-99: a change of the file input
HandleFileInput(b, files) ==
    /\ mounted = "yes"
    /\ View = "dropzone"
    /\ files.present
    /\ HandleFiles(b, files)

\* the loop going on to the next file although the file before it failed is what
\* the source does; this one stops at the first failure
HandleFilesResumeStopOnError(b) ==
    /\ batches[b].pc = "awaiting"
    /\ hookCalls[CurrentCall(b)].pc \in {"resolved", "rejected"}
    /\ LET h == CurrentCall(b)
           i == batches[b].i
       IN  /\ callbacks' = Append(callbacks,
                  IF hookCalls[h].pc = "resolved" THEN Callback("onComplete", b, i, "")
                  ELSE Callback("onError", b, i, hookCalls[h].err))
           /\ IF i < Len(batches[b].files) /\ hookCalls[h].pc = "resolved"
              THEN /\ batches' = [batches EXCEPT ![b].i = i + 1,
                                                    ![b].calls = Append(@, NextCall)]
                   /\ DenoiseAudioEnter(NextCall, batches[b].files[i + 1], NoOptions)
              ELSE /\ batches' = [batches EXCEPT ![b].pc = "done"]
                   /\ UNCHANGED <<isProcessing, error, hookCalls, calls, facadeVars>>
    /\ UNCHANGED <<mounted, isReady, hookInitWait, optionsModel, modelFetch, micVars,
                   wavVars, isMicrophoneActive, timers>>

\* lines 62-69: the await of denoise(file) settled: the callback, then the next file
\* (up to its await) or the end of the loop
HandleFilesResume(b) ==
    /\ batches[b].pc = "awaiting"
    /\ hookCalls[CurrentCall(b)].pc \in {"resolved", "rejected"}
    /\ LET h == CurrentCall(b)
           i == batches[b].i
       IN  /\ callbacks' = Append(callbacks,
                  IF hookCalls[h].pc = "resolved" THEN Callback("onComplete", b, i, "")
                  ELSE Callback("onError", b, i, hookCalls[h].err))
           /\ IF i < Len(batches[b].files)
              THEN /\ batches' = [batches EXCEPT ![b].i = i + 1,
                                                    ![b].calls = Append(@, NextCall)]
                   /\ DenoiseAudioEnter(NextCall, batches[b].files[i + 1], NoOptions)
              ELSE /\ batches' = [batches EXCEPT ![b].pc = "done"]
                   /\ UNCHANGED <<isProcessing, error, hookCalls, calls, facadeVars>>
    /\ UNCHANGED <<mounted, isReady, hookInitWait, optionsModel, modelFetch, micVars,
                   wavVars, isMicrophoneActive, timers>>

\* setIsMicrophoneActive(b)
SetIsMicrophoneActive(b) ==
    isMicrophoneActive' = (IF mounted = "yes" THEN b ELSE isMicrophoneActive)

\* lines 101-107: a click on the microphone button (rendered in the drop-zone view,
\* disabled while processing): stop the session, or call startMicrophone()
HandleMicrophoneToggle ==
    /\ mounted = "yes"
    /\ View = "dropzone"
    /\ ~isProcessing
    /\ IF isMicrophoneActive
       THEN /\ streams' = IF microphoneStreamRef # 0
                          THEN [streams EXCEPT ![microphoneStreamRef] = StopTracks(@)]
                          ELSE streams
            /\ microphoneStreamRef' = 0
            /\ SetIsMicrophoneActive(FALSE)
            /\ UNCHANGED micRequests
       ELSE /\ Len(streams) + micRequests < MaxStreams
            /\ micRequests' = micRequests + 1
            /\ UNCHANGED <<streams, microphoneStreamRef, isMicrophoneActive>>
    /\ UNCHANGED <<audioContextRef, hookCtx, hookVars, facadeVars, calls, wavVars,
                   isProcessing, hookCalls, timers, batches, callbacks>>

\* permission granted: startMicrophone() records the session and resolves (hook lines
\* 116-131), and with it the toggle goes on: active, and the 30 s timer armed for the
\* session (lines 108-114)
MicrophoneGranted(nTracks) ==
    /\ micRequests > 0
    /\ micRequests' = micRequests - 1
    /\ streams' = Append(streams, [t \in 1..nTracks |-> 0])
    /\ microphoneStreamRef' = Len(streams) + 1
    /\ audioContextRef' = 1
    /\ hookCtx' = IF audioContextRef = 0 THEN "open" ELSE hookCtx
    /\ SetIsMicrophoneActive(TRUE)
    /\ timers' = Append(timers, Len(streams) + 1)
    /\ UNCHANGED <<hookVars, facadeVars, calls, wavVars,
                   isProcessing, hookCalls, batches, callbacks>>

\* a denial handled as if it were a grant of nothing: active, timer armed
MicrophoneDeniedArmsTimer ==
    /\ micRequests > 0
    /\ micRequests' = micRequests - 1
    /\ SetError("Permission denied")
    /\ SetIsMicrophoneActive(TRUE)
    /\ timers' = Append(timers, 0)
    /\ callbacks' = Append(callbacks, Callback("onError", 0, 0, "Permission denied"))
    /\ UNCHANGED <<mounted, isReady, hookInitWait, optionsModel, modelFetch,
                   microphoneStreamRef, audioContextRef, streams, hookCtx,
                   facadeVars, calls, wavVars, isProcessing, hookCalls, batches>>

\* permission denied: startMicrophone() sets the error and rejects (hook lines
\* 132-136), and the toggle's catch calls onError (lines 115-117)
MicrophoneDenied ==
    /\ micRequests > 0
    /\ micRequests' = micRequests - 1
    /\ SetError("Permission denied")
    /\ callbacks' = Append(callbacks, Callback("onError", 0, 0, "Permission denied"))
    /\ UNCHANGED <<mounted, isReady, hookInitWait, optionsModel, modelFetch,
                   microphoneStreamRef, audioContextRef, streams, hookCtx,
                   facadeVars, calls, wavVars,
                   isProcessing, hookCalls, isMicrophoneActive, timers, batches>>

\* lines 111-114: the oldest armed timer fires: stopMicrophone(), inactive
AutoStop ==
    /\ timers # <<>>
    /\ timers' = Tail(timers)
    /\ streams' = IF microphoneStreamRef # 0
                  THEN [streams EXCEPT ![microphoneStreamRef] = StopTracks(@)]
                  ELSE streams
    /\ microphoneStreamRef' = 0
    /\ SetIsMicrophoneActive(FALSE)
    /\ UNCHANGED <<audioContextRef, micRequests, hookCtx, hookVars, facadeVars, calls,
                   wavVars, isProcessing, hookCalls, batches, callbacks>>

----------------------------------------------------------------------------
(* Specifications *)

InitFacade ==
    /\ _ready = FALSE
    /\ _readyPromise = 0
    /\ _processor = 0
    /\ promises = <<>>
    /\ calls = [c \in Calls |-> IdleCall]

InitHook ==
    /\ mounted = "no"
    /\ isReady = FALSE
    /\ error = ""
    /\ hookInitWait = -1
    /\ optionsModel = 0
    /\ modelFetch = FALSE
    /\ microphoneStreamRef = 0
    /\ audioContextRef = 0
    /\ micRequests = 0
    /\ streams = <<>>
    /\ hookCtx = "none"

InitUi ==
    /\ isProcessing = FALSE
    /\ hookCalls = [h \in Calls |-> IdleHookCall]
    /\ isMicrophoneActive = FALSE
    /\ timers = <<>>
    /\ batches = [b \in Batches |-> IdleBatch]
    /\ callbacks = <<>>

Init == InitFacade /\ InitHook /\ InitUi /\ wavArgs = NoWavArgs /\ wavBuf = <<>>

\* the inputs of the racing calls
RaceInputs == {NullInput, OtherInput, Input("Float32Array", <<>>, 0, TRUE),
               Input("Float32Array", <<Num(2)>>, 0, TRUE)}

Next ==
    \/ \E c \in Calls : CallReady(c) \/ ReadySettles(c)
    \/ \E p \in 1..Len(promises) : InitializeResolve(p) \/ InitializeReject(p)
    \/ \E c \in Calls, in \in RaceInputs : Denoise(c, in, NoOptions)
    \/ \E c \in Calls : ReadyRejected(c) \/ NormalizeRaw(c) \/ RejectType(c)
    \/ \E c \in Calls : EngineResolve(c, <<Num(1)>>) \/ EngineReject(c)
    \/ \E u \in BOOLEAN : Mount(u)
    \/ HookInitSettles
    \/ ModelUrlChange \/ ModelFetchResolve \/ ModelFetchReject
    \/ Unmount

Spec == Init /\ [][Next]_vars

\* one denoise() call, any input and options
NextDenoise ==
    \/ \E p \in 1..Len(promises) : InitializeResolve(p) \/ InitializeReject(p)
    \/ \E in \in AllInputs : \E op \in OptionsFor(in) : Denoise(1, in, op)
    \/ ReadyRejected(1) \/ NormalizeRaw(1) \/ RejectType(1)
    \/ BlobRead(1) \/ DecodeStart(1) \/ DecodeResolve(1) \/ DecodeReject(1)
    \/ ContextClosed(1)
    \/ CaptureStart(1) \/ FrameArrives(1) \/ CaptureResolved(1)
    \/ \E out \in EngineOutputs : EngineResolve(1, out)
    \/ EngineReject(1)

SpecDenoise == Init /\ [][NextDenoise]_vars

\* the event loop runs every continuation that is ready, loadWasm() settles, and the
\* platform keeps delivering frames to a connected script processor
SpecDenoiseFair == SpecDenoise /\ WF_vars(NextDenoise)

\* one denoise() call on a live stream, with frames still delivered after the capture
\* has disconnected its graph
NextCapture ==
    \/ \E p \in 1..Len(promises) : InitializeResolve(p) \/ InitializeReject(p)
    \/ \E in \in StreamInputs : \E op \in OptionsFor(in) : Denoise(1, in, op)
    \/ ReadyRejected(1)
    \/ CaptureStart(1) \/ FrameArrives(1) \/ LateFrameArrives(1) \/ CaptureResolved(1)
    \/ \E out \in EngineOutputs : EngineResolve(1, out)
    \/ EngineReject(1)

SpecCapture == Init /\ [][NextCapture]_vars

\* createWavFile on any sample array and rate
InitWav == InitFacade /\ InitHook /\ InitUi /\ wavArgs \in WavInputs /\ wavBuf = <<>>
NextWav == CreateWav
SpecWav == InitWav /\ [][NextWav]_vars

\* the microphone of one mounted hook
NextMic ==
    \/ Mount(FALSE)
    \/ \E p \in 1..Len(promises) : InitializeResolve(p) \/ InitializeReject(p)
    \/ HookInitSettles
    \/ StartMicrophone
    \/ \E n \in 1..MaxTracks : GetUserMediaResolve(n)
    \/ GetUserMediaReject
    \/ StopMicrophone
    \/ Unmount

SpecMic == Init /\ [][NextMic]_vars

\* loadWasm() settles
InitializeSettles == \E p \in 1..Len(promises) : InitializeResolve(p) \/ InitializeReject(p)

\* the continuations of the call c
ContinueCall(c) ==
    \/ ReadySettles(c) \/ ReadyRejected(c) \/ NormalizeRaw(c) \/ RejectType(c)
    \/ EngineResolve(c, <<Num(1)>>) \/ EngineReject(c)

\* the engine settles, and the event loop runs every continuation that is ready
SpecFair ==
    /\ Spec
    /\ WF_vars(InitializeSettles)
    /\ WF_vars(HookInitSettles)
    /\ \A c \in Calls : WF_vars(ContinueCall(c))

\* the arguments of the calls of the hook's denoise
LiveStream == Input("MediaStream", <<>>, MaxRate, TRUE)
HookCallArgs ==
    {<<in, NoOptions>> : in \in {NullInput, OtherInput, GoodFile, BadFile,
                                  Input("Float32Array", <<>>, 0, TRUE)}}
      \cup {<<Input("Float32Array", <<Num(2)>>, 0, TRUE), Options(0, rt, 0)>> : rt \in ReturnTypes}
      \cup {<<LiveStream, Options(0, "absent", 1500)>>}
LiveCallArgs == {<<LiveStream, Options(0, "absent", dur)>> : dur \in {400, 1500}}

\* the steps of the calls in flight
ContinueHook ==
    \/ \E p \in 1..Len(promises) : InitializeResolve(p) \/ InitializeReject(p)
    \/ HookInitSettles
    \/ \E h \in Calls : ReadyRejected(h) \/ NormalizeRaw(h) \/ RejectType(h)
    \/ \E h \in Calls : BlobRead(h) \/ DecodeStart(h) \/ DecodeResolve(h) \/ DecodeReject(h)
                          \/ ContextClosed(h)
    \/ \E h \in Calls : CaptureStart(h) \/ FrameArrives(h) \/ CaptureResolved(h)
    \/ \E h \in Calls : EngineResolve(h, <<Num(1)>>) \/ EngineReject(h)
    \/ \E h \in Calls : DenoiseAudioResolved(h) \/ DenoiseAudioBufferRead(h)
                          \/ DenoiseAudioRejected(h)

\* one hook instance whose denoise is called again only after the call before it has
\* settled
NextHook ==
    \/ Mount(FALSE)
    \/ \E a \in HookCallArgs :
          /\ NextCall \in Calls
          /\ \A g \in Calls : ~InFlight(g)
          /\ DenoiseAudio(NextCall, a[1], a[2])
    \/ ContinueHook
    \/ Unmount

SpecHook == Init /\ [][NextHook]_vars

\* the steps of a live capture in flight: continuations, and frames from the platform
ContinueLive ==
    \/ \E p \in 1..Len(promises) : InitializeResolve(p) \/ InitializeReject(p)
    \/ HookInitSettles
    \/ \E h \in Calls : ReadyRejected(h)
    \/ \E h \in Calls : CaptureStart(h) \/ FrameArrives(h) \/ CaptureResolved(h)
    \/ \E h \in Calls : EngineResolve(h, <<Num(1)>>) \/ EngineReject(h)
    \/ \E h \in Calls : DenoiseAudioResolved(h) \/ DenoiseAudioRejected(h)
    \/ GetUserMediaResolve(1)

\* one hook instance denoising live streams, one call at a time, while its microphone
\* is started and stopped at any time
NextLive ==
    \/ Mount(FALSE)
    \/ \E a \in LiveCallArgs :
          /\ NextCall \in Calls
          /\ \A g \in Calls : ~InFlight(g)
          /\ DenoiseAudio(NextCall, a[1], a[2])
    \/ ContinueLive
    \/ StartMicrophone
    \/ StopMicrophone
    \/ Unmount

SpecLive == Init /\ [][NextLive]_vars

\* the continuations run, and the platform keeps delivering frames
SpecLiveFair == SpecLive /\ WF_vars(ContinueLive)

\* the component fed with file lists
NextComp ==
    \/ Mount(FALSE)
    \/ \E p \in 1..Len(promises) : InitializeResolve(p) \/ InitializeReject(p)
    \/ HookInitSettles
    \/ \E b \in Batches, files \in FileLists : HandleDrop(b, files) \/ HandleFileInput(b, files)
    \/ \E b \in Batches : HandleFilesResume(b)
    \/ \E h \in Calls : BlobRead(h) \/ DecodeStart(h) \/ DecodeResolve(h) \/ DecodeReject(h)
                          \/ ContextClosed(h)
    \/ \E h \in Calls : EngineResolve(h, <<Num(1)>>) \/ EngineReject(h)
    \/ \E h \in Calls : DenoiseAudioResolved(h) \/ DenoiseAudioRejected(h)
    \/ Unmount

SpecComp == Init /\ [][NextComp]_vars

\* the component's microphone button (enableMicrophone set)
NextCompMic ==
    \/ Mount(FALSE)
    \/ \E p \in 1..Len(promises) : InitializeResolve(p) \/ InitializeReject(p)
    \/ HookInitSettles
    \/ HandleMicrophoneToggle
    \/ \E n \in 1..MaxTracks : MicrophoneGranted(n)
    \/ MicrophoneDenied
    \/ AutoStop
    \/ Unmount

SpecCompMic == Init /\ [][NextCompMic]_vars


\* the whole component: file lists and the microphone button
NextUI ==
    \/ Mount(FALSE)
    \/ \E p \in 1..Len(promises) : InitializeResolve(p) \/ InitializeReject(p)
    \/ HookInitSettles
    \/ \E b \in Batches, files \in FileLists : HandleDrop(b, files) \/ HandleFileInput(b, files)
    \/ \E b \in Batches : HandleFilesResume(b)
    \/ \E h \in Calls : BlobRead(h) \/ DecodeStart(h) \/ DecodeResolve(h) \/ DecodeReject(h)
                          \/ ContextClosed(h)
    \/ \E h \in Calls : EngineResolve(h, <<Num(1)>>) \/ EngineReject(h)
    \/ \E h \in Calls : DenoiseAudioResolved(h) \/ DenoiseAudioRejected(h)
    \/ HandleMicrophoneToggle
    \/ MicrophoneGranted(1)
    \/ MicrophoneDenied
    \/ AutoStop
    \/ Unmount

SpecUI == Init /\ [][NextUI]_vars

----------------------------------------------------------------------------
(* Properties of the facade, under Spec *)

\* the callers that have invoked ready(): a ready() call, a denoise() call past its
\* null check, the hook's mount effect
CalledReady(c) == calls[c].fn = "ready" \/ (calls[c].fn = "denoise" /\ calls[c].input.kind # "null")
\* the promises callers are still awaiting
AwaitedBy(c) == IF calls[c].pc = "awaitReady" THEN {calls[c].wait} ELSE {}
Awaited == UNION {AwaitedBy(c) : c \in Calls} \cup (IF hookInitWait >= 0 THEN {hookInitWait} ELSE {})

\* C1: however ready() and denoise() calls and the hook's mount interleave before the
\* first initialization completes, _initialize (loadWasm) is started exactly once and
\* every caller that arrived before completion awaits that one promise, the memoized
\* _readyPromise; only a caller that arrived after completion gets the resolved promise.
C1_SingleInitialization ==
    /\ Len(promises) <= 1
    /\ ((\E c \in Calls : CalledReady(c)) \/ mounted # "no") => Len(promises) = 1
    /\ \A w \in Awaited : IF w = 0 THEN _ready ELSE w = 1 /\ w = _readyPromise

\* three callers share the in-flight initialization
C1_Witness ==
    /\ Len(promises) = 1 /\ promises[1] = "pending"
    /\ hookInitWait = 1
    /\ \E c, d \in Calls : /\ c # d
                           /\ calls[c].fn = "ready" /\ calls[c].pc = "awaitReady" /\ calls[c].wait = 1
                           /\ calls[d].fn = "denoise" /\ calls[d].pc = "awaitReady" /\ calls[d].wait = 1

\* C2: once an initialization has succeeded, _ready stays true and _processor stays the
\* same non-null handle through every later ready(), denoise() (resolved or rejected),
\* mount, unmount and model change; and no denoise() call that got past its await of
\* ready() rejects with 'Denoise processor not initialized'.
C2_WriteOnceHandle ==
    /\ [](_ready => _processor # 0)
    /\ [][_ready => (_ready' /\ _processor' = _processor)]_vars
    /\ [](\A c \in Calls : calls[c].err # "Denoise processor not initialized")
    /\ [](\A c \in Calls : calls[c].fn = "denoise" /\ calls[c].pc \in {"processing", "resolved"} =>
                              calls[c].processor = _processor /\ _processor # 0)

\* after a successful initialization: a resolved and a rejected denoise(), the hook
\* unmounted, a model fetched
C2_Witness ==
    /\ _ready /\ _processor # 0
    /\ mounted = "gone" /\ optionsModel = 1
    /\ \E c, d \in Calls : /\ calls[c].fn = "denoise" /\ calls[c].pc = "resolved"
                           /\ calls[d].fn = "denoise" /\ calls[d].pc = "rejected"
                           /\ calls[d].err = "engine failed"

----------------------------------------------------------------------------
(* Properties of one denoise() call, under SpecDenoise *)

IsDenoise(c) == calls[c].fn = "denoise"
Kind(c) == calls[c].input.kind

\* the normalized sample array of the call is known and empty / non-empty
NormalizedEmpty(c) ==
    \/ Kind(c) \in {"ArrayBuffer", "Float32Array", "Blob"} /\ calls[c].input.ok
          /\ calls[c].input.data = <<>>
    \/ Kind(c) = "MediaStream" /\ calls[c].cap.resolved /\ calls[c].cap.result = <<>>
NormalizedNonEmpty(c) ==
    \/ Kind(c) \in {"ArrayBuffer", "Float32Array", "Blob"} /\ calls[c].input.ok
          /\ calls[c].input.data # <<>>
    \/ Kind(c) = "MediaStream" /\ calls[c].cap.resolved /\ calls[c].cap.result # <<>>

C3Bad(c) ==
    /\ IsDenoise(c)
    /\ \/ Kind(c) \in {"null", "other"}
       \/ NormalizedEmpty(c)
       \/ Kind(c) = "MediaStream" /\ calls[c].cap.active /\ calls[c].cap.targetSamples = 0

\* C3: a denoise() call whose input is null/undefined, of no supported type, or whose
\* normalized sample array is empty (a live capture with sample target 0 included)
\* never reaches processor.process and never resolves, and it ends rejected.
C3_BadInputRejected ==
    /\ [](\A c \in Calls : C3Bad(c) =>
              /\ calls[c].pc \notin {"processing", "resolved"}
              /\ calls[c].engineRate = -1)
    /\ \A c \in Calls : C3Bad(c) ~> (calls[c].pc = "rejected")

\* a live capture with target 0 rejected as empty after its first frame
C3_Witness ==
    \E c \in Calls : /\ C3Bad(c) /\ Kind(c) = "MediaStream"
                     /\ calls[c].cap.targetSamples = 0 /\ calls[c].cap.totalSamples > 0
                     /\ calls[c].pc = "rejected" /\ calls[c].err = "Audio data is empty"

ExpectedType(returnType) ==
    CASE returnType = "blob" -> "Blob"
      [] returnType = "float32array" -> "Float32Array"
      [] OTHER -> "ArrayBuffer"

\* C4: a denoise() call on a supported input shape with a non-empty normalized sample
\* array rejects only when the initialization or the engine call failed, and when it
\* resolves the result is a Blob for 'blob', a Float32Array for 'float32array' and the
\* raw buffer for 'arraybuffer' or no returnType.
C4_RequestedRepresentation ==
    \A c \in Calls :
        /\ (IsDenoise(c) /\ calls[c].pc = "resolved") =>
              /\ NormalizedNonEmpty(c)
              /\ calls[c].result.type = ExpectedType(calls[c].options.returnType)
        /\ (IsDenoise(c) /\ calls[c].pc = "rejected" /\ NormalizedNonEmpty(c)) =>
              calls[c].err \in {"initialization failed", "engine failed"}

\* a live stream resolved as a Blob
C4_Witness ==
    \E c \in Calls : /\ IsDenoise(c) /\ calls[c].pc = "resolved"
                     /\ Kind(c) = "MediaStream"
                     /\ calls[c].options.returnType = "blob"
                     /\ calls[c].result.type = "Blob"

\* the effective sample rate of the input, as the specification has it
EffectiveRate(c) ==
    CASE Kind(c) = "Blob" -> calls[c].input.rate
      [] Kind(c) = "MediaStream" -> calls[c].cap.sampleRate
      [] OTHER -> calls[c].options.sampleRate
HasEffectiveRate(c) ==
    Kind(c) \in {"Blob", "MediaStream"} \/ calls[c].options.sampleRate # 0

\* C5: a result of returnType 'blob' starts with 'RIFF' and declares at offset 24 the
\* effective sample rate of the input (decoded rate of a file/blob, capture context's
\* rate of a live stream, sampleRate option of a raw buffer or sample array), which is
\* also the rate handed to the engine.
C5_DeclaredRate ==
    \A c \in Calls :
        (IsDenoise(c) /\ calls[c].pc = "resolved" /\ calls[c].options.returnType = "blob"
            /\ HasEffectiveRate(c)) =>
              /\ RdTag(calls[c].result.bytes, 0) = RiffTag
              /\ RdU32(calls[c].result.bytes, 24) = EffectiveRate(c)
              /\ calls[c].engineRate = EffectiveRate(c)

\* the part of C5 the code keeps: every input but a live stream
C5_DeclaredRateButStreams ==
    \A c \in Calls :
        (IsDenoise(c) /\ calls[c].pc = "resolved" /\ calls[c].options.returnType = "blob"
            /\ HasEffectiveRate(c) /\ Kind(c) # "MediaStream") =>
              /\ RdTag(calls[c].result.bytes, 0) = RiffTag
              /\ RdU32(calls[c].result.bytes, 24) = EffectiveRate(c)
              /\ calls[c].engineRate = EffectiveRate(c)

\* the duration a capture runs for: options.duration, 5000 ms when absent
CaptureDuration(c) ==
    IF calls[c].options.duration = 0 THEN DefaultDuration ELSE calls[c].options.duration
\* samples 1..n of the stream, in stream order
StreamPrefix(n) == [i \in 1..n |-> Num(i)]

\* C8: the capture keeps the frames in arrival order, does not resolve before the
\* frame with which the count reaches target = floor(duration/1000 x rate) (duration
\* 5000 ms when absent), resolves with that frame, and resolves with exactly the
\* first target samples of the frames received.
C8_CaptureExactTarget ==
    \A c \in Calls :
        LET cap == calls[c].cap
            target == cap.targetSamples
        IN  cap.active =>
              /\ target * 1000 <= CaptureDuration(c) * cap.sampleRate
              /\ CaptureDuration(c) * cap.sampleRate < (target + 1) * 1000
              /\ Concat(cap.chunks) = StreamPrefix(cap.totalSamples)
              /\ (cap.chunks # <<>> /\ ~cap.resolved) => cap.totalSamples < target
              /\ cap.resolved =>
                    /\ cap.totalSamples >= target
                    /\ Len(cap.result) = target
                    /\ cap.result = StreamPrefix(target)
              /\ calls[c].pc \in {"processing", "resolved"} =>
                    calls[c].engineData = StreamPrefix(target)

\* a capture of several frames, trimmed inside its last frame
C8_Witness ==
    \E c \in Calls : /\ calls[c].cap.resolved
                     /\ Len(calls[c].cap.chunks) >= 2
                     /\ calls[c].cap.targetSamples > 0
                     /\ calls[c].cap.totalSamples > calls[c].cap.targetSamples
                     /\ calls[c].options.duration = 0

----------------------------------------------------------------------------
(* Properties of createWavFile, under SpecWav *)

WavDone == wavBuf # <<>>
\* the i-th 16-bit value of the data chunk, as a decoder reads it
StoredSample(i) == RdI16(wavBuf, WavHeaderSize + 2 * (i - 1))

\* C6: for an n-sample array the file has 44 + 2n bytes, RIFF size 36 + 2n, data size
\* 2n, PCM, mono, 16 bits per sample, block align 2 and byte rate 2 x sampleRate, so a
\* decoder reading the data chunk finds exactly n samples.
C6_WavLayout ==
    WavDone =>
        LET n == Len(wavArgs.audioData)
            dataBytes == RdU32(wavBuf, 40)
            blockAlign == RdU16(wavBuf, 32)
        IN  /\ Len(wavBuf) = WavHeaderSize + 2 * n
            /\ RdTag(wavBuf, 0) = RiffTag /\ RdTag(wavBuf, 8) = WaveTag
            /\ RdTag(wavBuf, 12) = FmtTag /\ RdTag(wavBuf, 36) = DataTag
            /\ RdU32(wavBuf, 4) = 36 + 2 * n
            /\ RdU32(wavBuf, 4) = Len(wavBuf) - 8
            /\ RdU32(wavBuf, 16) = 16 /\ RdU16(wavBuf, 20) = 1
            /\ RdU16(wavBuf, 22) = 1
            /\ RdU32(wavBuf, 24) = wavArgs.sampleRate
            /\ RdU32(wavBuf, 28) = 2 * wavArgs.sampleRate
            /\ RdU32(wavBuf, 28) = RdU32(wavBuf, 24) * RdU16(wavBuf, 22) * blockAlign
            /\ blockAlign = 2 /\ RdU16(wavBuf, 34) = 16
            /\ dataBytes = 2 * n
            /\ dataBytes = Len(wavBuf) - WavHeaderSize
            /\ dataBytes \div blockAlign = n

\* a file of the longest array at the default rate
C6_Witness ==
    WavDone /\ Len(wavArgs.audioData) = MaxLen /\ wavArgs.sampleRate = DefaultSampleRate

\* C7: every stored 16-bit value is the sample clipped to [-1, 1] and scaled by 32767:
\* it lies in [-32767, 32767], keeps the sign of the sample (no wrap-around however
\* far outside [-1, 1] the sample is), saturates at -32767 / 32767 from -1 / 1 on, and
\* -1, 0, 1 are stored as -32767, 0, 32767.
C7_ClippedSamples ==
    WavDone =>
        \A i \in 1..Len(wavArgs.audioData) :
            LET s == wavArgs.audioData[i]
                v == StoredSample(i)
            IN  /\ v >= 0 - Int16Scale /\ v <= Int16Scale
                /\ (s.k # "nan" /\ s.h > 0) => v > 0
                /\ (s.k # "nan" /\ s.h < 0) => v < 0
                /\ (s.k = "num" /\ s.h = 0) => v = 0
                /\ (s.k # "nan" /\ s.h >= 2) => v = Int16Scale
                /\ (s.k # "nan" /\ s.h <= -2) => v = 0 - Int16Scale
                /\ (s.k = "inf" /\ s.h > 0) => v = Int16Scale
                /\ (s.k = "inf" /\ s.h < 0) => v = 0 - Int16Scale
                /\ (s.k = "num" /\ s.h = 1) => v = 16383
                /\ (s.k = "num" /\ s.h = -1) => v = -16383

\* samples beyond both ends of [-1, 1] written to one file
C7_Witness ==
    /\ WavDone
    /\ \E i, j \in 1..Len(wavArgs.audioData) :
          /\ wavArgs.audioData[i] = Num(MaxAmp) /\ StoredSample(i) = Int16Scale
          /\ wavArgs.audioData[j] = Num(0 - MaxAmp) /\ StoredSample(j) = 0 - Int16Scale

----------------------------------------------------------------------------
(* Properties of the microphone, under SpecMic *)

\* the acquired streams with a track that has not been stopped
LiveStreams == {s \in 1..Len(streams) : \E t \in DOMAIN streams[s] : streams[s][t] = 0}

\* C9: at most one acquired stream has tracks that are not stopped, and it is the one
\* recorded in microphoneStreamRef.
C9_AtMostOneLiveStream ==
    /\ Cardinality(LiveStreams) <= 1
    /\ \A s \in LiveStreams : s = microphoneStreamRef

\* C10: a stopMicrophone() call with a session recorded calls stop() once on every
\* track of the recorded stream, touches no other stream and clears the reference; a
\* stopMicrophone() call with no session recorded changes nothing.
C10_StopClearsSession ==
    [][StopMicrophone =>
          IF microphoneStreamRef # 0
          THEN /\ microphoneStreamRef' = 0
               /\ Len(streams') = Len(streams)
               /\ \A s \in 1..Len(streams) :
                     /\ DOMAIN streams'[s] = DOMAIN streams[s]
                     /\ \A t \in DOMAIN streams[s] :
                           streams'[s][t] = streams[s][t]
                                + (IF s = microphoneStreamRef THEN 1 ELSE 0)
          ELSE UNCHANGED vars]_vars

\* a session started and stopped: each track stopped once, the reference cleared
C10_Witness ==
    /\ microphoneStreamRef = 0
    /\ Len(streams) = 1
    /\ Len(streams[1]) = MaxTracks
    /\ \A t \in DOMAIN streams[1] : streams[1][t] = 1
    /\ mounted = "yes"

----------------------------------------------------------------------------
(* Properties of the component's microphone button, under SpecCompMic *)

\* every track of the stream has been stopped
Stopped(stream) == \A t \in DOMAIN stream : stream[t] > 0

\* C11: when the 30 s timer armed for a session fires, the tracks of that session's
\* stream are stopped (by the timer, or earlier by the user) and the component's
\* active flag is false.
C11_AutoStopStopsSession ==
    [][AutoStop =>
          /\ Stopped(streams'[Head(timers)])
          /\ mounted = "yes" => ~isMicrophoneActive']_vars

----------------------------------------------------------------------------
(* Properties of the hook's denoise called one call at a time, under SpecHook *)

\* the call started last
LastCall == NextCall - 1

\* C12: with calls that do not overlap, isProcessing is true exactly while a call is
\* in flight; the start of a call resets error to null; a failing call sets error to
\* the error denoise() threw and rejects with that error; a succeeding call leaves
\* error as it is, null, and resolves with an ArrayBuffer.  (State as a mounted hook
\* shows it.)
C12_ProcessingAndError ==
    /\ [](mounted = "yes" => (isProcessing <=> \E h \in Calls : InFlight(h)))
    /\ [][\A h \in Calls : (hookCalls[h].pc = "idle" /\ hookCalls'[h].pc # "idle") =>
              isProcessing' /\ error' = ""]_vars
    /\ [][\A h \in Calls : (mounted = "yes" /\ InFlight(h) /\ hookCalls'[h].pc = "rejected") =>
              /\ ~isProcessing'
              /\ calls[h].pc = "rejected"
              /\ error' = calls[h].err /\ error' # ""
              /\ hookCalls'[h].err = calls[h].err]_vars
    /\ [][\A h \in Calls : (mounted = "yes" /\ InFlight(h) /\ hookCalls'[h].pc = "resolved") =>
              /\ ~isProcessing'
              /\ calls[h].pc = "resolved"
              /\ error' = error]_vars
    /\ [](\A h \in Calls : (mounted = "yes" /\ h = LastCall /\ hookCalls[h].pc = "resolved") =>
              error = "" /\ hookCalls[h].type = "ArrayBuffer")

\* a failed call followed by a successful one that went through a Blob
C12_Witness ==
    /\ mounted = "yes"
    /\ hookCalls[1].pc = "rejected" /\ hookCalls[1].err = "Audio data is empty"
    /\ hookCalls[2].pc = "resolved" /\ calls[2].result.type = "Blob"
    /\ error = "" /\ ~isProcessing

----------------------------------------------------------------------------
(* Properties of the hook's teardown, under SpecMic *)

\* C13: once the hook has unmounted, no stream it acquired has a track that was not
\* stopped, and its audio context, if it has one, is closed; also when the
\* permission request resolves after the unmount.
C13_UnmountReleases ==
    mounted = "gone" =>
        /\ LiveStreams = {}
        /\ audioContextRef # 0 => hookCtx = "closed"

\* the part of C13 that holds: the unmount step itself stops every live track of the
\* referenced stream and closes the context
C13_UnmountStep ==
    [][Unmount =>
          /\ microphoneStreamRef # 0 => Stopped(streams'[microphoneStreamRef])
          /\ audioContextRef # 0 => hookCtx' = "closed"]_vars

----------------------------------------------------------------------------
(* Properties of the component's microphone button, under SpecCompMic *)

\* onError calls made for a denied permission
DenialCallbacks(cbs) ==
    {k \in 1..Len(cbs) : cbs[k] = Callback("onError", 0, 0, "Permission denied")}

\* C14: when the permission request is denied, the hook's error becomes the denial
\* error, the stream reference, the streams and the audio context are left as they
\* were, onError is called once with the denial error, no timer is armed, and the
\* active flag is left as it was: false, unless another session is recorded.
C14_PermissionDenied ==
    /\ [][MicrophoneDenied =>
            /\ mounted = "yes" => error' = "Permission denied"
            /\ UNCHANGED <<microphoneStreamRef, audioContextRef, hookCtx, streams>>
            /\ Len(callbacks') = Len(callbacks) + 1
            /\ callbacks'[Len(callbacks')] = Callback("onError", 0, 0, "Permission denied")
            /\ UNCHANGED <<timers, isMicrophoneActive>>
            /\ (mounted = "yes" /\ microphoneStreamRef = 0) => ~isMicrophoneActive']_vars
    /\ [](Len(timers) <= Len(streams))

\* a denied request: the error shown, nothing recorded, one onError
C14_Witness ==
    /\ mounted = "yes"
    /\ error = "Permission denied"
    /\ Cardinality(DenialCallbacks(callbacks)) = 1
    /\ microphoneStreamRef = 0 /\ audioContextRef = 0 /\ streams = <<>>
    /\ ~isMicrophoneActive /\ timers = <<>>

----------------------------------------------------------------------------
(* Properties of the component's file handling, under SpecComp *)

\* the positions in the callback log of the calls made for file i of batch b
CallbacksFor(b, i) == {k \in 1..Len(callbacks) : callbacks[k].batch = b /\ callbacks[k].i = i}
HookCallSettled(h) == hookCalls[h].pc \in {"resolved", "rejected"}

\* C15: the files of a list are processed one at a time in list order: when the call
\* for file i is made, the calls for the files before it have settled and each has
\* had its one callback, onComplete if its call resolved and onError with the call's
\* error if it rejected, in list order; no file further on has a call or a callback;
\* and a list is finished only when every file has had its callback, so a failing
\* file does not stop the loop and n successful files give n onComplete calls.
C15_OneCallbackPerFile ==
    \A b \in Batches :
        LET B == batches[b]
            done == IF B.pc = "done" THEN B.i ELSE B.i - 1
        IN  B.files # <<>> =>
              /\ Len(B.calls) = B.i /\ B.i \in 1..Len(B.files)
              /\ B.pc = "done" => B.i = Len(B.files)
              /\ \A i \in 1..Len(B.files) :
                    /\ Cardinality(CallbacksFor(b, i)) = (IF i <= done THEN 1 ELSE 0)
                    /\ i <= done =>
                          /\ HookCallSettled(B.calls[i])
                          /\ calls[B.calls[i]].input = B.files[i]
                          /\ \A k \in CallbacksFor(b, i) :
                                /\ callbacks[k].cb = (IF hookCalls[B.calls[i]].pc = "resolved"
                                                      THEN "onComplete" ELSE "onError")
                                /\ callbacks[k].err = hookCalls[B.calls[i]].err
                                /\ \A j \in 1..(i - 1) : \A m \in CallbacksFor(b, j) : m < k
                    /\ (i < B.i) => \A j \in 1..(i - 1) : B.calls[j] < B.calls[i]

\* a list of two files finished, the first failed and the second succeeded
C15_Witness ==
    \E b \in Batches :
        /\ batches[b].pc = "done" /\ Len(batches[b].files) = 2
        /\ \E k, m \in 1..Len(callbacks) :
              /\ k < m
              /\ callbacks[k] = Callback("onError", b, 1, "Failed to decode audio file")
              /\ callbacks[m] = Callback("onComplete", b, 2, "")

\* handleFiles was entered with the file list `files` for batch b
EntersHandleFiles(b, files) == HandleDrop(b, files) \/ HandleFileInput(b, files)

\* C16: handleFiles given an empty file list, or none, calls onError once with 'No
\* files selected', calls onComplete not at all, makes no denoise call and leaves
\* the hook's isProcessing and error as they are.
C16_EmptyFileList ==
    /\ [][\A b \in Batches, files \in FileLists :
            (EntersHandleFiles(b, files) /\ (~files.present \/ files.list = <<>>)) =>
                /\ callbacks' = Append(callbacks, Callback("onError", b, 0, "No files selected"))
                /\ UNCHANGED <<isProcessing, error, isReady, hookCalls, calls, facadeVars>>
                /\ batches'[b].pc = "done" /\ batches'[b].calls = <<>>]_vars
    /\ [](\A b \in Batches : (batches[b].pc = "done" /\ batches[b].files = <<>>) =>
              /\ Cardinality(CallbacksFor(b, 0)) = 1
              /\ \A k \in 1..Len(callbacks) : callbacks[k].batch = b => callbacks[k].cb = "onError"
              /\ batches[b].calls = <<>>)

\* an empty list handled while another list is being processed
C16_Witness ==
    \E a, b \in Batches :
        /\ batches[a].pc = "awaiting" /\ isProcessing
        /\ batches[b].pc = "done" /\ batches[b].files = <<>>
        /\ Cardinality(CallbacksFor(b, 0)) = 1
        /\ \A k \in 1..Len(callbacks) : callbacks[k].cb = "onError"

\* C17: whenever the hook's error is non-null the mounted component renders the
\* error view, not the loading view nor the drop zone.
C17_ErrorDisplayed ==
    (mounted = "yes" /\ error # "") => View = "error"

----------------------------------------------------------------------------
(* Properties of a live capture while the microphone is stopped, under     *)
(* SpecLiveFair                                                            *)

\* the capture of call h is waiting for frames
Capturing(h) == calls[h].pc = "capturing" /\ ~calls[h].cap.resolved

\* C18: stopMicrophone() leaves every denoise call in flight as it is; a capture
\* waiting for frames is moved on by nothing but a frame, and resolves only when the
\* frames reach its sample target, so without frames it stays pending with
\* isProcessing true; with frames delivered fairly the call settles.
C18_StopDoesNotPropagate ==
    /\ [][StopMicrophone => UNCHANGED <<calls, hookCalls, isProcessing, error>>]_vars
    /\ [][\A h \in Calls : (Capturing(h) /\ calls'[h] # calls[h]) =>
              /\ calls'[h].cap = OnAudioProcess(calls[h].cap, NextFrame(calls[h].cap))
              /\ calls'[h].pc = "capturing"
              /\ calls'[h].cap.resolved <=>
                    calls'[h].cap.totalSamples >= calls[h].cap.targetSamples]_vars
    /\ [](\A h \in Calls : Capturing(h) =>
              /\ hookCalls[h].pc = "awaitDenoise"
              /\ mounted = "yes" => isProcessing)
    /\ \A h \in Calls : Capturing(h) ~> HookCallSettled(h)

\* the microphone stopped in the middle of a capture that is still waiting for its
\* second frame
C18_Witness ==
    \E h \in Calls :
        /\ Capturing(h) /\ Len(calls[h].cap.chunks) = 1
        /\ isProcessing /\ mounted = "yes"
        /\ microphoneStreamRef = 0
        /\ Len(streams) >= 1 /\ Stopped(streams[Len(streams)])

----------------------------------------------------------------------------
(* Properties of a failed initialization, under SpecFair *)

\* the one initialization attempt has rejected
InitFailed == Len(promises) >= 1 /\ promises[1] = "rejected"

\* C19: once the initialization has rejected, _ready stays false and _processor
\* null, no further initialization is started (loadWasm is not called again), every
\* ready() call and every denoise() call with a non-null input, made before or after
\* the failure, awaits the rejected promise and rejects with its error, never
\* reaching the engine, and the hook does not become ready.
C19_FailedInitMemoized ==
    /\ [](InitFailed =>
              /\ ~_ready /\ _processor = 0
              /\ Len(promises) = 1 /\ _readyPromise = 1
              /\ ~isReady
              /\ \A c \in Calls : CalledReady(c) =>
                    /\ calls[c].wait = 1
                    /\ calls[c].pc \in {"awaitReady", "rejected"}
                    /\ calls[c].pc = "rejected" => calls[c].err = "initialization failed"
                    /\ calls[c].engineRate = -1)
    /\ [][InitFailed => (InitFailed' /\ promises' = promises)]_vars
    /\ [][(InitFailed /\ mounted = "no" /\ mounted' = "yes") => hookInitWait' = 1]_vars
    /\ \A c \in Calls : (InitFailed /\ CalledReady(c)) ~> (calls[c].pc = "rejected")
    /\ (InitFailed /\ mounted = "yes") ~> (mounted = "yes" => error # "" /\ ~isReady)

\* after the failure: a ready() call and a denoise() call rejected with it, and the
\* hook showing the failure
C19_Witness ==
    /\ InitFailed
    /\ mounted = "yes" /\ hookInitWait = -1 /\ error = "initialization failed" /\ ~isReady
    /\ \E c, d \in Calls : /\ calls[c].fn = "ready" /\ calls[c].pc = "rejected"
                           /\ calls[d].fn = "denoise" /\ calls[d].pc = "rejected"
                           /\ calls[d].err = "initialization failed"

----------------------------------------------------------------------------
(* Properties of overlapping calls of the hook's denoise, under SpecComp *)

\* a list is being processed
Running(b) == batches[b].pc = "awaiting"

\* C20: with calls of one hook instance overlapping, isProcessing is true whenever
\* one of them is in flight, and an error one call recorded is not erased (reset to
\* null) while a list is still being processed.
C20_OverlappingCalls ==
    /\ []((mounted = "yes" /\ \E h \in Calls : InFlight(h)) => isProcessing)
    /\ [][(mounted = "yes" /\ error # "" /\ \E b \in Batches : Running(b)) => error' # ""]_vars

\* the first half of C20 alone
C20_ProcessingWhileInFlight ==
    (mounted = "yes" /\ \E h \in Calls : InFlight(h)) => isProcessing

\* the second half of C20 alone
C20_ErrorKept ==
    [][(mounted = "yes" /\ error # "" /\ \E b \in Batches : Running(b)) => error' # ""]_vars

----------------------------------------------------------------------------
(* Properties of the auto-stop timers, under SpecCompMic *)

\* C21: a timer whose own session has already been stopped stops nothing when it
\* fires: no track of any other session gets a stop() and the active flag is left
\* as it is.
C21_TimerStopsOwnSession ==
    [][(AutoStop /\ Stopped(streams[Head(timers)])) =>
          /\ \A s \in 1..Len(streams) : s # Head(timers) => streams'[s] = streams[s]
          /\ isMicrophoneActive' = isMicrophoneActive]_vars

----------------------------------------------------------------------------
(* Properties of the teardown of a live capture, under SpecCapture *)

\* C22: a capture disconnects its nodes and closes its context at most once and
\* calls resolve at most once, and a frame delivered after the sample target has
\* been reached changes nothing.
C22_TornDownOnce ==
    /\ [](\A c \in Calls : calls[c].cap.teardowns <= 1 /\ calls[c].cap.resolveCalls <= 1)
    /\ [][\A c \in Calls : LateFrameArrives(c) => calls'[c].cap = calls[c].cap]_vars

\* the part of C22 that holds: the promise settles once, and a late frame does not
\* change the samples the capture resolved with nor the call that awaits it
C22_ResultSettledOnce ==
    [][\A c \in Calls : LateFrameArrives(c) =>
          /\ calls'[c].cap.resolved /\ calls'[c].cap.result = calls[c].cap.result
          /\ calls'[c].cap.ctx = "closed" /\ ~calls'[c].cap.connected
          /\ calls'[c].pc = calls[c].pc /\ calls'[c].result = calls[c].result
          /\ calls'[c].engineData = calls[c].engineData]_vars

----------------------------------------------------------------------------
(* Properties of the decoding of a file/blob, under SpecDenoise *)

\* C23: when a denoise() call has settled, the audio context it created to decode
\* its file/blob is closed, after a successful decode and after a failed one; and a
\* call whose decode failed has not invoked the engine.
C23_DecodeContextClosed ==
    \A c \in Calls :
        /\ (calls[c].pc \in {"resolved", "rejected"} /\ calls[c].ctx # "none") =>
              calls[c].ctx = "closed"
        /\ calls[c].err = "Failed to decode audio file" => calls[c].engineRate = -1

\* the part of C23 that holds: the context is closed before the engine is invoked
\* after a successful decode, and the engine is not invoked after a failed one
C23_ClosedAfterDecode ==
    \A c \in Calls :
        /\ (Kind(c) = "Blob" /\ calls[c].pc \in {"processing", "resolved"}) =>
              calls[c].ctx = "closed"
        /\ (Kind(c) = "Blob" /\ calls[c].pc = "rejected" /\ calls[c].input.ok
                /\ calls[c].err # "initialization failed") => calls[c].ctx = "closed"
        /\ calls[c].err = "Failed to decode audio file" =>
              calls[c].engineRate = -1 /\ calls[c].pc = "rejected"

----------------------------------------------------------------------------
(* Properties of the component's error view, under SpecUI *)

\* the component is mounted and ready, shows an error, and processes no file list
Absorbed == mounted = "yes" /\ isReady /\ error # "" /\ \A b \in Batches : ~Running(b)

\* C24: from a state where the ready component shows an error and no file list is
\* being processed, no step clears the error, starts a file list, a denoise call or
\* a permission request, and the component stays in such a state while it is
\* mounted; and error goes back to null only when the loop of a running file list
\* starts the denoise call of its next file.
C24_ErrorViewAbsorbing ==
    /\ [](Absorbed => View = "error")
    /\ [][Absorbed =>
            /\ error' # ""
            /\ UNCHANGED <<batches, hookCalls, calls, isProcessing>>
            /\ micRequests' <= micRequests
            /\ mounted' = "yes" => Absorbed']_vars
    /\ [][(error # "" /\ error' = "") =>
            \E b \in Batches : /\ Running(b)
                               /\ HandleFilesResume(b)
                               /\ batches'[b].i = batches[b].i + 1]_vars

\* the error of a finished file list is shown while a second list and a further
\* denoise call are still available and the microphone is off
C24_Witness ==
    /\ Absorbed
    /\ error = "Failed to decode audio file"
    /\ batches[1].pc = "done" /\ batches[2].pc = "idle"
    /\ NextCall \in Calls
    /\ ~isMicrophoneActive

====
